---------------------------- MODULE Spec2Model ----------------------------
(***************************************************************************)
(* Model of the HarfBuzz entry backend of tofi                             *)
(* (src/entry_backend/harfbuzz.c): font set-up and tear-down, and the      *)
(* per-frame render pass that lays out the prompt, the input and the       *)
(* result rows on a Cairo canvas.                                          *)
(*                                                                         *)
(* Lengths and coordinates are integers in 1/64 of a canvas unit, the      *)
(* 26.6 fixed-point format HarfBuzz reports glyph positions in.            *)
(***************************************************************************)
EXTENDS Integers, Sequences, FiniteSets, TLC

VARIABLES
    entry,      \* struct entry: the host's configuration, and num_results_drawn
    cr,         \* the Cairo context entry->cairo[entry->index].cr
    rows,       \* history: the extents update() obtained for each row it evaluated
    hb,         \* struct entry_backend_harfbuzz, with the history of library calls
    build,      \* whether the build defines NO_HARFBUZZ_FONT_CHANGED
    pc          \* "start", "ready", "exited", "drawn", "destroyed"

vars == <<entry, cr, rows, hb, build, pc>>

----------------------------------------------------------------------------
(* Bounds of the model. *)

MaxTokens == 3          \* tokens in font_variations / font_features
NElemSettings == 2      \* N_ELEM(hb->hb_variations), N_ELEM(hb->hb_features)
MaxResults == 3         \* entry->results.count
MaxConfigured == 2      \* entry->num_results
MaxClip == 6            \* clip_width / clip_height, in canvas units

----------------------------------------------------------------------------
(* Small helpers. *)

MAX(a, b) == IF a > b THEN a ELSE b

MIN(a, b) == IF a < b THEN a ELSE b

SeqsUpTo(S, n) == UNION {[1..k -> S] : k \in 0..n}

\* Body applied to a value computed once: a local variable of the C code.
With(x, Body(_)) == Body(x)

----------------------------------------------------------------------------
(* Font set-up: entry_backend_harfbuzz_init.                               *)

Tokens == {"good", "bad"}

\* hb_variation_from_string / hb_feature_from_string: whether a token parses.
hb_setting_from_string(token) == token = "good"

\* The strtok_r loops of init: the tokens that parse, in order, until the
\* array of settings is full.  ParseSettings(tokens, <<>>) is the array filled.
RECURSIVE ParseSettings(_, _)
ParseSettings(tokens, acc) ==
    IF tokens = <<>> \/ ~(Len(acc) < NElemSettings)
    THEN acc
    ELSE ParseSettings(Tail(tokens),
                       IF hb_setting_from_string(Head(tokens))
                       THEN Append(acc, Head(tokens))
                       ELSE acc)

NoFont ==
    [ft_library |-> FALSE, ft_face |-> FALSE, sized |-> FALSE,
     hb_font |-> FALSE, hb_buffer |-> FALSE, cairo_face |-> FALSE,
     hb_variations |-> <<>>, hb_features |-> <<>>,
     face_variations |-> <<>>,   \* the variations the FreeType face carries
     cairo_variations |-> <<>>,  \* the variations the Cairo face was created with
     calls |-> <<>>,             \* history of the library calls made
     failed |-> {}]              \* history of the FreeType calls that failed

FtCalls == {"FT_Init_FreeType", "FT_New_Face", "FT_Set_Char_Size"}

\* The body of entry_backend_harfbuzz_init, for one outcome of the FreeType
\* calls: errs is the set of FreeType calls that return an error.  The
\* result is the font state, with exited set when the process was ended.
InitBodyM6(h, e, noFontChanged, errs) ==
    LET c1 == [h EXCEPT !.calls = Append(@, "FT_Init_FreeType")] IN
    IF "FT_Init_FreeType" \in errs
    THEN [font |-> [c1 EXCEPT !.failed = {"FT_Init_FreeType"},
                              !.calls = Append(@, "exit")],
          exited |-> TRUE]
    ELSE
    LET c2 == [c1 EXCEPT !.ft_library = TRUE,
                         !.calls = Append(@, "FT_New_Face")] IN
    IF "FT_New_Face" \in errs
    THEN [font |-> [c2 EXCEPT !.failed = {"FT_New_Face"},
                              !.calls = Append(@, "exit")],
          exited |-> TRUE]
    ELSE
    LET sizeFails == "FT_Set_Char_Size" \in errs
        c3 == [c2 EXCEPT !.ft_face = TRUE,
                         !.calls = Append(@, "FT_Set_Char_Size"),
                         !.sized = ~sizeFails,
                         !.failed = IF sizeFails THEN {"FT_Set_Char_Size"} ELSE {}]
        c4 == [c3 EXCEPT !.hb_font = TRUE,
                         !.calls = Append(@, "hb_ft_font_create_referenced")]
        feats == ParseSettings(e.font_features, c4.hb_features)
        \* here the Cairo face is created before the variations are set
        c5 == [c4 EXCEPT !.cairo_face = TRUE,
                         !.cairo_variations = c4.face_variations,
                         !.calls = Append(@, "cairo_ft_font_face_create_for_ft_face")]
        vars_ == ParseSettings(e.font_variations, c5.hb_variations)
        c6 == [c5 EXCEPT !.hb_variations = vars_,
                         !.calls = Append(@, "hb_font_set_variations")]
        c7 == IF noFontChanged
              THEN c6
              ELSE [c6 EXCEPT !.face_variations = vars_,
                              !.calls = Append(@, "hb_ft_hb_font_changed")]
        c8 == [c7 EXCEPT !.hb_features = feats,
                         !.hb_buffer = TRUE,
                         !.calls = Append(@, "hb_buffer_create")]
    IN [font |-> c8, exited |-> FALSE]

InitBody(h, e, noFontChanged, errs) ==
    LET c1 == [h EXCEPT !.calls = Append(@, "FT_Init_FreeType")] IN
    IF "FT_Init_FreeType" \in errs
    THEN [font |-> [c1 EXCEPT !.failed = {"FT_Init_FreeType"},
                              !.calls = Append(@, "exit")],
          exited |-> TRUE]
    ELSE
    LET c2 == [c1 EXCEPT !.ft_library = TRUE,
                         !.calls = Append(@, "FT_New_Face")] IN
    IF "FT_New_Face" \in errs
    THEN [font |-> [c2 EXCEPT !.failed = {"FT_New_Face"},
                              !.calls = Append(@, "exit")],
          exited |-> TRUE]
    ELSE
    \* A failure of FT_Set_Char_Size is logged, and init carries on.
    LET sizeFails == "FT_Set_Char_Size" \in errs
        c3 == [c2 EXCEPT !.ft_face = TRUE,
                         !.calls = Append(@, "FT_Set_Char_Size"),
                         !.sized = ~sizeFails,
                         !.failed = IF sizeFails THEN {"FT_Set_Char_Size"} ELSE {}]
        c4 == [c3 EXCEPT !.hb_font = TRUE,
                         !.calls = Append(@, "hb_ft_font_create_referenced")]
        vars_ == ParseSettings(e.font_variations, c4.hb_variations)
        c5 == [c4 EXCEPT !.hb_variations = vars_,
                         !.calls = Append(@, "hb_font_set_variations")]
        c6 == IF noFontChanged
              THEN c5
              ELSE [c5 EXCEPT !.face_variations = vars_,
                              !.calls = Append(@, "hb_ft_hb_font_changed")]
        feats == ParseSettings(e.font_features, c6.hb_features)
        c7 == [c6 EXCEPT !.hb_features = feats,
                         !.hb_buffer = TRUE,
                         !.calls = Append(@, "hb_buffer_create")]
        c8 == [c7 EXCEPT !.cairo_face = TRUE,
                         !.cairo_variations = c7.face_variations,
                         !.calls = Append(@, "cairo_ft_font_face_create_for_ft_face")]
    IN [font |-> c8, exited |-> FALSE]


----------------------------------------------------------------------------
(* Fixed-point arithmetic.                                                 *)

\* HarfBuzz positions are 26.6 fixed point: 64 model units per canvas unit.
FixedPoint == 64

Units(n) == n * FixedPoint

\* floor() and ceil() of a length, as lengths.
Floor(v) == (v \div FixedPoint) * FixedPoint

Ceil(v) == 0 - Floor(0 - v)

\* A (non-negative) double passed for a uint32_t parameter loses its fraction.
ToUint32(v) == Floor(v)

----------------------------------------------------------------------------
(* Text: strings are sequences of one-byte characters.                     *)

Chars == {"a", "A", "b"}

\* x_advance of the glyph HarfBuzz shapes a character to (glyph_pos[i].x_advance).
GlyphAdvance(ch) == CASE ch = "a" -> 48 [] ch = "A" -> 64 [] OTHER -> 32

\* Left bearing and ink width of a glyph, as cairo_glyph_extents measures it.
GlyphBearing(ch) == CASE ch = "a" -> 2 [] ch = "A" -> 0 [] OTHER -> 4

GlyphInk(ch) == CASE ch = "a" -> 40 [] ch = "A" -> 60 [] OTHER -> 24

RECURSIVE SumAdvance(_)
SumAdvance(text) ==
    IF text = <<>> THEN 0 ELSE GlyphAdvance(Head(text)) + SumAdvance(Tail(text))

\* cairo_glyph_extents of the glyphs of a shaped text, laid out from x = 0 as
\* the loop of render_hb_buffer places them.
GlyphExtents(text) ==
    IF text = <<>>
    THEN [x_bearing |-> 0, width |-> 0, x_advance |-> 0]
    ELSE LET n == Len(text)
             lastX == SumAdvance(SubSeq(text, 1, n - 1))
         IN [x_bearing |-> GlyphBearing(text[1]),
             width     |-> lastX + GlyphBearing(text[n]) + GlyphInk(text[n])
                             - GlyphBearing(text[1]),
             x_advance |-> lastX + GlyphAdvance(text[n])]

----------------------------------------------------------------------------
(* The Cairo context.                                                      *)
(*   mat     the translation of the current transformation matrix          *)
(*   source  the current source                                            *)
(*   stack   the graphics states saved by cairo_save / cairo_push_group    *)
(*   groups  the contents of the groups being drawn to, innermost last     *)
(*   log     what was drawn on the main canvas, in device coordinates      *)
(*   row     history: the result (index in entry->results) being drawn     *)
(*   scopes  history: stack depth and matrix at entry of each open scope   *)
(*   leaks   history: the scopes that returned with another depth/matrix   *)

NoRow == 0 - 1

NewCanvas ==
    [mat |-> [x0 |-> 0, y0 |-> 0], source |-> "none", stack |-> <<>>,
     groups |-> <<>>, log |-> <<>>, row |-> NoRow, scopes |-> <<>>,
     leaks |-> {}, patterns |-> 0]

cairo_save(c) ==
    [c EXCEPT !.stack = Append(@, [mat |-> c.mat, source |-> c.source])]

\* cairo_restore without a saved state puts the context in an error state.
cairo_restore(c) ==
    IF c.stack = <<>>
    THEN [c EXCEPT !.leaks = @ \cup {"cairo_restore"}]
    ELSE LET top == c.stack[Len(c.stack)]
         IN [c EXCEPT !.stack = SubSeq(@, 1, Len(@) - 1),
                      !.mat = top.mat, !.source = top.source]

cairo_translate(c, tx, ty) ==
    [c EXCEPT !.mat = [x0 |-> c.mat.x0 + tx, y0 |-> c.mat.y0 + ty]]

cairo_set_source_rgba(c, color) == [c EXCEPT !.source = color.id]

\* A drawing operation lands in the innermost group, or on the main canvas.
Emit(c, item) ==
    IF c.groups = <<>>
    THEN [c EXCEPT !.log = Append(@, item)]
    ELSE [c EXCEPT !.groups[Len(c.groups)] = Append(@, item)]

cairo_show_glyphs(c, text) ==
    Emit(c, [op |-> "glyphs", text |-> text, color |-> c.source,
             x |-> c.mat.x0, y |-> c.mat.y0, row |-> c.row])

\* rounded_rectangle followed by cairo_fill.
FillRoundedRectangle(c, width, height, r) ==
    Emit(c, [op |-> "fill", w |-> width, h |-> height, r |-> r,
             color |-> c.source, x |-> c.mat.x0, y |-> c.mat.y0, row |-> c.row])

cairo_push_group(c) == [cairo_save(c) EXCEPT !.groups = Append(@, <<>>)]

\* cairo_pop_group: the context, and the pattern holding the group's content.
\* The caller owns the pattern; patterns counts the group patterns alive.
cairo_pop_group(c) ==
    [cr    |-> [cairo_restore(c) EXCEPT !.groups = SubSeq(@, 1, Len(@) - 1),
                                        !.patterns = @ + 1],
     group |-> c.groups[Len(c.groups)]]

\* cairo_pattern_destroy(group): the caller's reference is dropped.
cairo_pattern_destroy(c) == [c EXCEPT !.patterns = @ - 1]

\* cairo_set_source(cr, group); cairo_paint(cr).  The reference the source
\* takes is held by the saved state and dropped by the restore.
PaintGroup(c, group) ==
    Emit(c, [op |-> "paint", content |-> group, row |-> c.row])

\* History: a scope (a function body, or the highlighter's block) is entered
\* and left; a scope that returns with another stack depth, matrix or number
\* of open groups than it was entered with is recorded in leaks.
Enter(c) ==
    [c EXCEPT !.scopes = Append(@, [depth |-> Len(c.stack), mat |-> c.mat,
                                    groups |-> Len(c.groups)])]

Leave(c, name) ==
    LET s == c.scopes[Len(c.scopes)]
        same == /\ s.depth = Len(c.stack)
                /\ s.mat = c.mat
                /\ s.groups = Len(c.groups)
    IN [c EXCEPT !.scopes = SubSeq(@, 1, Len(@) - 1),
                 !.leaks = IF same THEN @ ELSE @ \cup {name}]


----------------------------------------------------------------------------
(* Shaping and themed rendering.                                           *)

\* cairo_font_extents: ascent 1 unit, height 1.5 units.
FontAscent == FixedPoint

FontHeight == FixedPoint + FixedPoint \div 2

\* render_hb_buffer: draws the glyphs of the shaped buffer, shifted down by the
\* ascent, and returns their extents.
render_hb_buffer(c, glyphs) ==
    LET c1 == cairo_save(Enter(c))
        c2 == cairo_translate(c1, 0, FontAscent)
        c3 == cairo_show_glyphs(c2, glyphs)
        c4 == cairo_restore(c3)
    IN [cr |-> Leave(c4, "render_hb_buffer"), extents |-> GlyphExtents(glyphs)]

\* render_text: the buffer is cleared and the text shaped, one glyph for each
\* character, then rendered.
render_text(c, text) == render_hb_buffer(c, text)

\* The background box of render_text_themed.
BackgroundBox(c, theme, extents) ==
    LET padding == theme.padding
        c1 == cairo_save(c)
        c2 == cairo_set_source_rgba(c1, theme.background_color)
        c3 == cairo_translate(c2,
                  Floor(0 - Units(padding.left) + extents.x_bearing),
                  0 - Units(padding.top))
        c4 == FillRoundedRectangle(c3,
                  ToUint32(Ceil(extents.width + Units(padding.left)
                                + Units(padding.right))),
                  ToUint32(Ceil(FontHeight + Units(padding.top)
                                + Units(padding.bottom))),
                  theme.background_corner_radius)
    IN cairo_restore(c4)

\* A render_text_themed that returns early after its cairo_save.
render_text_themedM4(c, text, theme) ==
    With(render_text(cairo_set_source_rgba(Enter(c), theme.foreground_color),
                     text),
         LAMBDA t1 :
            IF theme.background_color.a = 0
            THEN [cr |-> Leave(cairo_save(t1.cr), "render_text_themed"),
                  extents |-> t1.extents]
            ELSE [cr |-> Leave(
                            render_text(
                                cairo_set_source_rgba(
                                    BackgroundBox(t1.cr, theme, t1.extents),
                                    theme.foreground_color),
                                text).cr,
                            "render_text_themed"),
                  extents |-> t1.extents])

\* Lines 152-201.
render_text_themed(c, text, theme) ==
    With(render_text(cairo_set_source_rgba(Enter(c), theme.foreground_color),
                     text),
         LAMBDA t1 :
            IF theme.background_color.a = 0
            THEN [cr |-> Leave(t1.cr, "render_text_themed"),
                  extents |-> t1.extents]
            ELSE [cr |-> Leave(
                            render_text(
                                cairo_set_source_rgba(
                                    BackgroundBox(t1.cr, theme, t1.extents),
                                    theme.foreground_color),
                                text).cr,
                            "render_text_themed"),
                  extents |-> t1.extents])

\* Lines 203-218.
size_overflows(e, c, width, height) ==
    IF e.horizontal
    THEN c.mat.x0 + ToUint32(width) > Units(e.clip_x + e.clip_width)
    ELSE c.mat.y0 + ToUint32(height) > Units(e.clip_y + e.clip_height)


----------------------------------------------------------------------------
(* The match highlighter: the else branch of the result loop.              *)

Fold(ch) == IF ch = "A" THEN "a" ELSE ch

FoldSeq(text) == [k \in 1..Len(text) |-> Fold(text[k])]

\* utf8_strcasestr: the position (from 1) of the first case-insensitive
\* occurrence of needle in haystack, 0 when there is none.
utf8_strcasestr(haystack, needle) ==
    LET n == Len(needle)
        hits == {p \in 1..(Len(haystack) - n + 1) :
                    FoldSeq(SubSeq(haystack, p, p + n - 1)) = FoldSeq(needle)}
    IN IF hits = {} THEN 0 ELSE CHOOSE p \in hits : \A q \in hits : p <= q

\* Lines 498-515: the prematch, match and postmatch chunks of the result.
\* match and postmatch are <<>> with has_match / has_postmatch FALSE when the
\* pointers are NULL.
SplitMatch(e, result) ==
    LET input_len == Len(e.input_utf8)
        pos == IF input_len > 0 /\ e.selection_highlight_color.a # 0
               THEN utf8_strcasestr(result, e.input_utf8)
               ELSE 0
    IN IF pos = 0
       THEN [prematch |-> result, prematch_len |-> 0,
             has_match |-> FALSE, match |-> <<>>,
             has_postmatch |-> FALSE, postmatch |-> <<>>]
       ELSE LET prematch_len == pos - 1
                postmatch_len == Len(result) - prematch_len - input_len
            IN [prematch |-> SubSeq(result, 1, prematch_len),
                prematch_len |-> prematch_len,
                has_match |-> TRUE,
                match |-> SubSeq(result, prematch_len + 1,
                                 prematch_len + input_len),
                has_postmatch |-> postmatch_len > 0,
                postmatch |-> SubSeq(result, prematch_len + input_len + 1,
                                     Len(result))]

\* Lines 547-551 and 564-568: the extents of a run followed by another.
JoinExtents(extents, subextents) ==
    [x_bearing |-> extents.x_bearing,
     width     |-> extents.x_advance - extents.x_bearing
                     + subextents.x_bearing + subextents.width,
     x_advance |-> extents.x_advance + subextents.x_advance]

\* Lines 525-553: the match chunk, drawn after the prematch t1; the canvas,
\* the subextents of the chunk and the extents of both.
HighlightMatch(e, m, t1) ==
    IF ~m.has_match
    THEN [cr |-> t1.cr, subextents |-> t1.extents, extents |-> t1.extents]
    ELSE With(render_text(
                  cairo_set_source_rgba(
                      cairo_translate(t1.cr, t1.extents.x_advance, 0),
                      e.selection_highlight_color),
                  m.match),
              LAMBDA t2 :
                 [cr |-> t2.cr, subextents |-> t2.extents,
                  extents |-> IF m.prematch_len = 0 THEN t2.extents
                              ELSE JoinExtents(t1.extents, t2.extents)])

\* Lines 555-569: the postmatch chunk, drawn after the match t2.
HighlightPostmatch(e, m, t2) ==
    IF ~m.has_postmatch
    THEN [cr |-> t2.cr, extents |-> t2.extents]
    ELSE With(render_text(
                  cairo_set_source_rgba(
                      cairo_translate(t2.cr, t2.subextents.x_advance, 0),
                      e.selection_theme.foreground_color),
                  m.postmatch),
              LAMBDA t3 :
                 [cr |-> t3.cr,
                  extents |-> JoinExtents(t2.extents, t3.extents)])

\* Lines 518-571: one pass over the three chunks.
HighlightPass(e, c, m) ==
    With(HighlightPostmatch(e, m,
             HighlightMatch(e, m,
                 render_text(
                     cairo_set_source_rgba(cairo_save(c),
                         e.selection_theme.foreground_color),
                     m.prematch))),
         LAMBDA t : [cr |-> cairo_restore(t.cr), extents |-> t.extents])

\* Lines 581-596: the background box painted after the first pass.
HighlightBox(e, c, extents) ==
    LET padding == e.selection_theme.padding
        c1 == cairo_save(c)
        c2 == cairo_set_source_rgba(c1, e.selection_theme.background_color)
        c3 == cairo_translate(c2,
                  Floor(0 - Units(padding.left) + extents.x_bearing),
                  0 - Units(padding.top))
        c4 == FillRoundedRectangle(c3,
                  ToUint32(Ceil(extents.width + Units(padding.left)
                                + Units(padding.right))),
                  ToUint32(Ceil(FontHeight + Units(padding.top)
                                + Units(padding.bottom))),
                  e.selection_theme.background_corner_radius)
    IN cairo_restore(c4)

\* A highlighter that paints the box after each of its two passes.
RenderHighlightedM8(e, c, result) ==
    With(SplitMatch(e, result), LAMBDA m :
    With(HighlightPass(e, Enter(c), m), LAMBDA p0 :
        IF e.selection_theme.background_color.a = 0
        THEN [cr |-> Leave(p0.cr, "highlighter"), extents |-> p0.extents]
        ELSE With(HighlightPass(e, HighlightBox(e, p0.cr, p0.extents), m),
                  LAMBDA p1 :
                     [cr |-> Leave(HighlightBox(e, p1.cr, p1.extents),
                                   "highlighter"),
                      extents |-> p1.extents])))

\* A highlighter that draws the first chunk in the highlight colour when no
\* match was found.
RenderHighlightedM9(e, c, result) ==
    With(SplitMatch(e, result), LAMBDA m :
    With([e EXCEPT !.selection_theme.foreground_color =
                       IF m.has_match THEN @ ELSE e.selection_highlight_color],
         LAMBDA flip :
    With(HighlightPass(flip, Enter(c), m), LAMBDA p0 :
        IF e.selection_theme.background_color.a = 0
        THEN [cr |-> Leave(p0.cr, "highlighter"), extents |-> p0.extents]
        ELSE With(HighlightPass(flip, HighlightBox(e, p0.cr, p0.extents), m),
                  LAMBDA p1 :
                     [cr |-> Leave(p1.cr, "highlighter"),
                      extents |-> p1.extents]))))

\* Lines 498-606: the two passes of the highlighter over one result.
RenderHighlighted(e, c, result) ==
    With(SplitMatch(e, result), LAMBDA m :
    With(HighlightPass(e, Enter(c), m), LAMBDA p0 :
        IF e.selection_theme.background_color.a = 0
        THEN [cr |-> Leave(p0.cr, "highlighter"), extents |-> p0.extents]
        ELSE With(HighlightPass(e, HighlightBox(e, p0.cr, p0.extents), m),
                  LAMBDA p1 :
                     [cr |-> Leave(p1.cr, "highlighter"),
                      extents |-> p1.extents])))

----------------------------------------------------------------------------
(* The render pass: entry_backend_harfbuzz_update.                         *)

\* Lines 390-395.
NumResults(e) ==
    IF e.num_results = 0
    THEN Len(e.results)
    ELSE MIN(e.num_results, Len(e.results))

\* A check that tests the clip in fixed-count mode too.
PreDrawBreakM2(e, c, i) ==
    size_overflows(e, c, 0, 0) \/ (e.num_results # 0 /\ i >= e.num_results)

\* Lines 404-410: whether the loop ends before result i is looked at.
PreDrawBreak(e, c, i) ==
    IF e.num_results = 0
    THEN size_overflows(e, c, 0, 0)
    ELSE i >= e.num_results

\* A choice of theme keyed by the position on screen.
SelectThemeM7(e, i, index) ==
    IF i = e.selection THEN e.selection_theme
    ELSE IF i % 2 = 1 THEN e.alternate_result_theme
    ELSE e.default_result_theme

\* Lines 428-435.
SelectTheme(e, i, index) ==
    IF i = e.selection THEN e.selection_theme
    ELSE IF index % 2 = 1 THEN e.alternate_result_theme
    ELSE e.default_result_theme

\* Lines 442 and 452: the row drawn straight on the canvas.
RenderDirect(c, result, theme) ==
    With(render_text_themed(c, result, theme),
         LAMBDA t : [cr |-> t.cr, extents |-> t.extents, brk |-> FALSE])

\* A speculative render that composites the group before it is measured
\* against the clip.
RenderSpeculativeM3(e, c, result, theme) ==
    With(render_text_themed(cairo_push_group(c), result, theme), LAMBDA t :
    With(cairo_pop_group(t.cr), LAMBDA g :
        [cr |-> cairo_pattern_destroy(
                    cairo_restore(PaintGroup(cairo_save(g.cr), g.group))),
         extents |-> t.extents,
         brk |-> size_overflows(e, g.cr, t.extents.x_advance, 0)]))

\* A speculative render that composites every row that starts inside the
\* clip, whatever its measured advance.
RenderSpeculativeM11(e, c, result, theme) ==
    With(render_text_themed(cairo_push_group(c), result, theme), LAMBDA t :
    With(cairo_pop_group(t.cr), LAMBDA g :
        IF size_overflows(e, g.cr, 0, 0)
        THEN [cr |-> cairo_pattern_destroy(g.cr),
              extents |-> t.extents, brk |-> TRUE]
        ELSE [cr |-> cairo_pattern_destroy(
                         cairo_restore(PaintGroup(cairo_save(g.cr), g.group))),
              extents |-> t.extents, brk |-> FALSE]))

\* Lines 463-477: the row rendered to a group, measured, and composited if
\* it fits.
RenderSpeculative(e, c, result, theme) ==
    With(render_text_themed(cairo_push_group(c), result, theme), LAMBDA t :
    With(cairo_pop_group(t.cr), LAMBDA g :
        IF size_overflows(e, g.cr, t.extents.x_advance, 0)
        THEN [cr |-> cairo_pattern_destroy(g.cr),
              extents |-> t.extents, brk |-> TRUE]
        ELSE [cr |-> cairo_pattern_destroy(
                         cairo_restore(PaintGroup(cairo_save(g.cr), g.group))),
              extents |-> t.extents, brk |-> FALSE]))

\* Lines 437-478: a row drawn by render_text_themed.  brk: the loop ends and
\* the row is not on the canvas.
RenderPlain(e, c, result, theme, extents) ==
    IF e.num_results > 0
    THEN RenderDirect(c, result, theme)
    ELSE IF ~e.horizontal
    THEN IF size_overflows(e, c, 0, FontHeight)
         THEN [cr |-> c, extents |-> extents, brk |-> TRUE]
         ELSE RenderDirect(c, result, theme)
    ELSE RenderSpeculative(e, c, result, theme)

\* Lines 422-607: result index, at position i on screen.
RenderRow(e, c, i, index, extents) ==
    IF i # e.selection \/ e.selection_highlight_color.a = 0
    THEN RenderPlain(e, [c EXCEPT !.row = index], e.results[index + 1],
                     SelectTheme(e, i, index), extents)
    ELSE With(RenderHighlighted(e, [c EXCEPT !.row = index],
                                e.results[index + 1]),
              LAMBDA h : [cr |-> h.cr, extents |-> h.extents, brk |-> FALSE])

\* Lines 399-403: the origin moves past the last run drawn.
Advance(e, c, extents) ==
    IF e.horizontal
    THEN cairo_translate(c, extents.x_advance + Units(e.result_spacing), 0)
    ELSE cairo_translate(c, 0, FontHeight + Units(e.result_spacing))

\* Lines 398-608: the result loop.  st.i is the loop counter, st.extents the
\* extents of the last run drawn, st.rows the history of the rows evaluated.
RECURSIVE ResultLoop(_, _, _)
ResultLoop(e, num_results, st) ==
    IF ~(st.i < num_results)
    THEN st
    ELSE With(Advance(e, st.cr, st.extents), LAMBDA c1 :
         With(st.i + e.first_result, LAMBDA index :
            IF PreDrawBreak(e, c1, st.i) \/ index >= Len(e.results)
            THEN [st EXCEPT !.cr = c1]
            ELSE With(RenderRow(e, c1, st.i, index, st.extents), LAMBDA r :
                 With([i |-> st.i, index |-> index, mat |-> c1.mat,
                       highlighted |-> (st.i = e.selection
                           /\ e.selection_highlight_color.a # 0),
                       extents |-> r.extents, brk |-> r.brk,
                       before |-> c1.log, after |-> r.cr.log,
                       patterns |-> r.cr.patterns],
                      LAMBDA row :
                    IF r.brk
                    THEN [st EXCEPT !.cr = [r.cr EXCEPT !.row = NoRow],
                                    !.rows = Append(@, row)]
                    ELSE ResultLoop(e, num_results,
                             [cr |-> [r.cr EXCEPT !.row = NoRow],
                              extents |-> r.extents,
                              i |-> st.i + 1,
                              rows |-> Append(st.rows, row)])))))

\* Lines 369-378: the input's characters replaced by the hidden character.
HiddenInput(e) ==
    [k \in 1..(Len(e.input_utf8) * Len(e.hidden_character_utf8)) |->
        e.hidden_character_utf8[((k - 1) % Len(e.hidden_character_utf8)) + 1]]

\* Lines 360-364: the prompt, and the origin moved past it.
RenderPrompt(e, c) ==
    With(render_text_themed(c, e.prompt_text, e.prompt_theme), LAMBDA prompt :
        cairo_translate(
            cairo_translate(prompt.cr, prompt.extents.x_advance, 0),
            Units(e.prompt_padding), 0))

\* Lines 366-385: the entry text, its advance at least input_width.
RenderInput(e, c) ==
    With(IF Len(e.input_utf8) = 0
         THEN render_text_themed(c, e.placeholder_text, e.placeholder_theme)
         ELSE IF e.hide_input
         THEN render_text_themed(c, HiddenInput(e), e.input_theme)
         ELSE render_text_themed(c, e.input_utf8, e.input_theme),
         LAMBDA input :
            [cr |-> input.cr,
             extents |-> [input.extents EXCEPT
                             !.x_advance = MAX(@, Units(e.input_width))]])

\* The body of entry_backend_harfbuzz_update on canvas c: the canvas, the
\* loop counter written to num_results_drawn, and the history of the rows.
UpdateBody(e, c) ==
    With(RenderInput(e, RenderPrompt(e, cairo_save(Enter(c)))), LAMBDA input :
    With(ResultLoop(e, NumResults(e),
             [cr |-> input.cr, extents |-> input.extents, i |-> 0,
              rows |-> <<>>]),
         LAMBDA loop :
            [cr |-> Leave(cairo_restore(loop.cr), "update"),
             num_results_drawn |-> loop.i,
             rows |-> loop.rows]))

----------------------------------------------------------------------------
(* The host's configuration.                                               *)

Color(id, a) == [id |-> id, a |-> a]

Theme(fg, bg, a) ==
    [foreground_color |-> Color(fg, 1),
     background_color |-> Color(bg, a),
     padding |-> [left |-> 1, top |-> 0, right |-> 1, bottom |-> 0],
     background_corner_radius |-> 0]

\* The k-th result of the list, k from 1.
Word(k) ==
    CASE k % 4 = 1 -> <<"A", "b">>
      [] k % 4 = 2 -> <<"b", "a">>
      [] k % 4 = 3 -> <<"b">>
      [] OTHER     -> <<"b", "A", "b">>

\* What was typed, and whether it is hidden.
Inputs ==
    {[text |-> <<>>, hide |-> FALSE],
     [text |-> <<"a">>, hide |-> FALSE],
     [text |-> <<"a", "b">>, hide |-> TRUE]}

BaseEntry ==
    [font_variations |-> <<>>, font_features |-> <<>>,
     foreground_color |-> Color("foreground", 1),
     horizontal |-> FALSE,
     clip_x |-> 0, clip_y |-> 0, clip_width |-> 0, clip_height |-> 0,
     prompt_text |-> <<"b">>, prompt_padding |-> 0,
     prompt_theme |-> Theme("prompt_fg", "prompt_bg", 0),
     placeholder_text |-> <<"b">>,
     placeholder_theme |-> Theme("placeholder_fg", "placeholder_bg", 0),
     input_utf8 |-> <<>>, hide_input |-> FALSE,
     hidden_character_utf8 |-> <<"b">>,
     input_theme |-> Theme("input_fg", "input_bg", 1),
     input_width |-> 1, result_spacing |-> 1,
     num_results |-> 0, results |-> <<>>, first_result |-> 0,
     selection |-> 0,
     default_result_theme |-> Theme("default_fg", "default_bg", 1),
     alternate_result_theme |-> Theme("alternate_fg", "alternate_bg", 0),
     selection_theme |-> Theme("selection_fg", "selection_bg", 0),
     selection_highlight_color |-> Color("highlight", 0),
     num_results_drawn |-> 0]

\* The clip rectangle spans the whole canvas across the scroll axis.
CrossClip == 2 * MaxClip

\* The entry the host hands to update.
FrameEntry(horizontal, origin, size, num_results, count, first_result, selection, input, background_a, highlight_a) ==
    [BaseEntry EXCEPT
        !.horizontal = horizontal,
        !.clip_x = IF horizontal THEN origin ELSE 0,
        !.clip_width = IF horizontal THEN size ELSE CrossClip,
        !.clip_y = IF horizontal THEN 0 ELSE origin,
        !.clip_height = IF horizontal THEN CrossClip ELSE size,
        !.num_results = num_results,
        !.results = [k \in 1..count |-> Word(k)],
        !.first_result = first_result,
        !.selection = selection,
        !.input_utf8 = input.text,
        !.hide_input = input.hide,
        !.selection_theme = Theme("selection_fg", "selection_bg", background_a),
        !.selection_highlight_color = Color("highlight", highlight_a)]

\* The entry the host hands to init.
FontEntry(variations, features) ==
    [BaseEntry EXCEPT !.font_variations = variations,
                      !.font_features = features]

----------------------------------------------------------------------------
(* The state machines.                                                     *)

\* The state as the host starts: nothing is loaded.
InitStart ==
    /\ pc = "start"
    /\ hb = NoFont
    /\ build \in [NO_HARFBUZZ_FONT_CHANGED : BOOLEAN]
    /\ \E v \in SeqsUpTo(Tokens, MaxTokens), f \in SeqsUpTo(Tokens, MaxTokens) :
          entry = FontEntry(v, f)
    /\ cr = NewCanvas
    /\ rows = <<>>

entry_backend_harfbuzz_init ==
    /\ pc = "start"
    /\ \E errs \in SUBSET FtCalls :
          LET r == InitBody(hb, entry, build.NO_HARFBUZZ_FONT_CHANGED, errs)
          IN /\ hb' = r.font
             /\ pc' = IF r.exited THEN "exited" ELSE "ready"
             /\ cr' = IF r.exited THEN cr
                      ELSE cairo_set_source_rgba(cr, entry.foreground_color)
    /\ UNCHANGED <<entry, rows, build>>

entry_backend_harfbuzz_destroy ==
    /\ pc = "ready"
    /\ hb' = [hb EXCEPT !.hb_buffer = FALSE, !.hb_font = FALSE,
                        !.cairo_face = FALSE, !.ft_face = FALSE,
                        !.ft_library = FALSE,
                        !.calls = @ \o <<"hb_buffer_destroy", "hb_font_destroy",
                                         "cairo_font_face_destroy",
                                         "FT_Done_Face", "FT_Done_FreeType">>]
    /\ pc' = "destroyed"
    /\ UNCHANGED <<entry, cr, rows, build>>

NextFont == entry_backend_harfbuzz_init \/ entry_backend_harfbuzz_destroy

SpecFont == InitStart /\ [][NextFont]_vars

\* The state before a frame is rendered: the font is loaded, the host has
\* filled in the entry and cleared the canvas.
Init ==
    /\ pc = "ready"
    /\ build = [NO_HARFBUZZ_FONT_CHANGED |-> FALSE]
    /\ hb = InitBody(NoFont, BaseEntry, FALSE, {}).font
    /\ \E horizontal \in BOOLEAN, origin \in 0..1, size \in 0..MaxClip,
          num_results \in 0..MaxConfigured, count \in 0..MaxResults,
          selection \in 0..(MaxResults - 1), input \in Inputs,
          background_a \in {0, 1}, highlight_a \in {0, 1} :
          \E first_result \in 0..MAX(count - 1, 0) :
             entry = FrameEntry(horizontal, origin, size, num_results, count,
                                first_result, selection, input,
                                background_a, highlight_a)
    /\ cr = cairo_set_source_rgba(NewCanvas, BaseEntry.foreground_color)
    /\ rows = <<>>

entry_backend_harfbuzz_update ==
    /\ pc = "ready"
    /\ \E u \in {UpdateBody(entry, cr)} :
          /\ cr' = u.cr
          /\ entry' = [entry EXCEPT !.num_results_drawn = u.num_results_drawn]
          /\ rows' = u.rows
    /\ pc' = "drawn"
    /\ UNCHANGED <<hb, build>>

Next == entry_backend_harfbuzz_update

Spec == Init /\ [][Next]_vars


----------------------------------------------------------------------------
(* Reading the canvas.                                                     *)

\* The drawing operations that reached the main canvas, a composited group
\* replaced by its content.
RECURSIVE Flatten(_)
Flatten(log) ==
    IF log = <<>> THEN <<>>
    ELSE LET item == Head(log)
         IN (IF item.op = "paint" THEN Flatten(item.content) ELSE <<item>>)
            \o Flatten(Tail(log))

OnCanvas == Flatten(cr.log)

\* The results (indices in entry->results) painted on the main canvas.
PaintedRows == {OnCanvas[k].row : k \in DOMAIN OnCanvas} \ {NoRow}

\* The operations painted for one result, in order.
RowOps(index) ==
    LET OfRow(item) == item.row = index IN SelectSeq(OnCanvas, OfRow)

AutoFit == entry.num_results = 0

\* clip_origin + clip_size on the scroll axis.
ClipEdge ==
    IF entry.horizontal
    THEN Units(entry.clip_x + entry.clip_width)
    ELSE Units(entry.clip_y + entry.clip_height)

\* The far edge of an evaluated row: its origin plus its extent.
FarEdge(row) ==
    IF entry.horizontal
    THEN row.mat.x0 + row.extents.x_advance
    ELSE row.mat.y0 + FontHeight

----------------------------------------------------------------------------
(* Claims.                                                                 *)

\* C1: in auto-fit mode a candidate row whose far edge equals the clip
\* boundary is drawn, and one whose far edge is a unit past it is not.
C1_BoundaryRule ==
    (pc = "drawn" /\ AutoFit) =>
        \A k \in DOMAIN rows :
            /\ FarEdge(rows[k]) = ClipEdge => rows[k].index \in PaintedRows
            /\ FarEdge(rows[k]) = ClipEdge + Units(1)
                   => rows[k].index \notin PaintedRows

\* The rule of C1 for the rows drawn by render_text_themed, which are the
\* rows the code measures against the clip: it holds of them.
C1_PlainRowsBoundaryRule ==
    (pc = "drawn" /\ AutoFit) =>
        \A k \in DOMAIN rows :
            ~rows[k].highlighted =>
                /\ FarEdge(rows[k]) <= ClipEdge
                       => rows[k].index \in PaintedRows
                /\ FarEdge(rows[k]) >= ClipEdge + Units(1)
                       => rows[k].index \notin PaintedRows

\* C2, as stated: in fixed-count mode exactly min(configured count,
\* results.count) rows are drawn, whatever the clip rectangle.
C2_FixedCountOriginal ==
    (pc = "drawn" /\ ~AutoFit) =>
        Cardinality(PaintedRows) = MIN(entry.num_results, Len(entry.results))

\* C2, amended: in fixed-count mode exactly min(configured count,
\* results.count - first_result) rows are drawn, whatever the clip rectangle.
C2_FixedCount ==
    (pc = "drawn" /\ ~AutoFit) =>
        /\ Cardinality(PaintedRows)
             = MIN(entry.num_results, Len(entry.results) - entry.first_result)
        /\ PaintedRows = {entry.first_result + i :
                            i \in 0..(Cardinality(PaintedRows) - 1)}

C2_Witness ==
    /\ pc = "drawn"
    /\ entry.num_results = 2
    /\ Len(entry.results) = 3
    /\ entry.first_result = 2
    /\ entry.clip_height = 0
    /\ PaintedRows = {2}

\* C3: the num_results_drawn written back is the number of result rows
\* painted on the main canvas, whichever way the loop ended.
C3_DrawnCount ==
    pc = "drawn" => entry.num_results_drawn = Cardinality(PaintedRows)

\* A horizontal speculative render overflowed after a row was drawn.
C3_Witness ==
    /\ pc = "drawn"
    /\ AutoFit /\ entry.horizontal
    /\ entry.num_results_drawn = 1
    /\ Len(rows) = 2 /\ rows[2].brk

\* C4: every save and group push is popped before its scope returns, so
\* update leaves the stack depth and the transform as it found them.
C4_Balanced ==
    /\ cr.leaks = {}
    /\ pc = "drawn" =>
        /\ cr.stack = <<>> /\ cr.groups = <<>> /\ cr.scopes = <<>>
        /\ cr.mat = NewCanvas.mat

\* The loop ended by a break after the highlighter and a theme without
\* background had drawn.
C4_Witness ==
    /\ pc = "drawn"
    /\ Len(rows) = 2 /\ rows[1].highlighted /\ rows[2].brk
    /\ entry.selection_theme.background_color.a = 0


\* The place of the first call of a library function in init's history, 0
\* when it was not called.
CallPos(name) ==
    LET at == {k \in DOMAIN hb.calls : hb.calls[k] = name}
    IN IF at = {} THEN 0 ELSE CHOOSE k \in at : \A j \in at : k <= j

Returned == pc \in {"ready", "destroyed"}

\* C5: init ends the process, before the shaping font and the Cairo font
\* face are created, when the library cannot be initialised, the font cannot
\* be opened or the font cannot be sized.
C5_FatalOnFontError ==
    hb.failed # {} =>
        /\ pc = "exited"
        /\ CallPos("hb_ft_font_create_referenced") = 0
        /\ CallPos("cairo_ft_font_face_create_for_ft_face") = 0

ThemeColors(theme) ==
    {theme.foreground_color.id}
        \cup (IF theme.background_color.a # 0
              THEN {theme.background_color.id} ELSE {})

RowColors(index) ==
    {RowOps(index)[k].color : k \in DOMAIN RowOps(index)}

\* C7: the selected row is drawn with the selection theme; any other row
\* with the alternate theme when its index in the result list is odd and
\* with the default theme when it is even.
C7_ThemeByIndexParity ==
    pc = "drawn" =>
        \A index \in PaintedRows :
            IF index - entry.first_result = entry.selection
            THEN /\ entry.selection_theme.foreground_color.id
                        \in RowColors(index)
                 /\ RowColors(index) \subseteq
                        ThemeColors(entry.selection_theme)
                          \cup (IF entry.selection_highlight_color.a # 0
                                THEN {entry.selection_highlight_color.id}
                                ELSE {})
            ELSE IF index % 2 = 1
            THEN RowColors(index) = ThemeColors(entry.alternate_result_theme)
            ELSE RowColors(index) = ThemeColors(entry.default_result_theme)

\* The first row on screen has an odd index and the second an even one.
C7_Witness ==
    /\ pc = "drawn"
    /\ entry.first_result = 1
    /\ entry.selection = 2
    /\ PaintedRows = {1, 2}

\* Whether the highlighter finds the input in a result, and where.
MatchPos(result) ==
    IF entry.input_utf8 = <<>> THEN 0
    ELSE utf8_strcasestr(result, entry.input_utf8)

\* The number of chunks the highlighter draws in one pass.
Chunks(result) ==
    IF MatchPos(result) = 0 THEN 1
    ELSE IF MatchPos(result) - 1 + Len(entry.input_utf8) < Len(result) THEN 3
    ELSE 2

\* One pass of the highlighter over a result: its chunks, the second in the
\* highlight colour when there is a match, the others in the selection
\* theme's foreground colour.
IsPass(ops, result) ==
    /\ Len(ops) = Chunks(result)
    /\ \A j \in DOMAIN ops :
          /\ ops[j].op = "glyphs"
          /\ ops[j].color = IF MatchPos(result) # 0 /\ j = 2
                            THEN entry.selection_highlight_color.id
                            ELSE entry.selection_theme.foreground_color.id

\* C8: the highlighter draws one pass, and with a background then paints the
\* box once, sized from the combined extents, and draws the same pass again.
C8_HighlightPasses ==
    pc = "drawn" =>
        \A k \in DOMAIN rows :
            rows[k].highlighted =>
                LET result == entry.results[rows[k].index + 1]
                    ops == RowOps(rows[k].index)
                    n == Chunks(result)
                    padding == entry.selection_theme.padding
                IN IF entry.selection_theme.background_color.a = 0
                   THEN IsPass(ops, result)
                   ELSE /\ Len(ops) = 2 * n + 1
                        /\ IsPass(SubSeq(ops, 1, n), result)
                        /\ ops[n + 1].op = "fill"
                        /\ ops[n + 1].color
                             = entry.selection_theme.background_color.id
                        /\ ops[n + 1].w
                             = Ceil(rows[k].extents.width
                                    + Units(padding.left + padding.right))
                        /\ ops[n + 1].x
                             = rows[k].mat.x0
                               + Floor(rows[k].extents.x_bearing
                                       - Units(padding.left))
                        /\ SubSeq(ops, n + 2, 2 * n + 1) = SubSeq(ops, 1, n)

\* Prematch, match and postmatch were drawn, boxed and drawn again.
C8_Witness ==
    /\ pc = "drawn"
    /\ \E k \in DOMAIN rows :
          /\ rows[k].highlighted
          /\ Len(RowOps(rows[k].index)) = 7

\* C9: with no match the highlighter draws what render_text_themed draws
\* for the result with the selection theme, and obtains the same extents.
C9_NoMatchIsPlain ==
    pc = "drawn" =>
        \A k \in DOMAIN rows :
            LET result == entry.results[rows[k].index + 1]
                plain == render_text_themed(
                             [NewCanvas EXCEPT !.mat = rows[k].mat,
                                               !.row = rows[k].index],
                             result, entry.selection_theme)
            IN (rows[k].highlighted /\ MatchPos(result) = 0) =>
                  /\ RowOps(rows[k].index) = plain.cr.log
                  /\ rows[k].extents = plain.extents

\* Something was typed that the selected result does not contain.
C9_Witness ==
    /\ pc = "drawn"
    /\ entry.input_utf8 # <<>>
    /\ \E k \in DOMAIN rows :
          /\ rows[k].highlighted
          /\ MatchPos(entry.results[rows[k].index + 1]) = 0
          /\ Len(RowOps(rows[k].index)) = 3

\* C10: in auto-fit mode the far edge of a row painted by the highlighter
\* does not exceed the clip boundary.
C10_HighlightedFits ==
    (pc = "drawn" /\ AutoFit) =>
        \A k \in DOMAIN rows :
            (rows[k].highlighted /\ rows[k].index \in PaintedRows) =>
                FarEdge(rows[k]) <= ClipEdge

\* The test the code makes of a measured row: its origin plus its advance,
\* taken in whole units, lies past the clip's far edge.
Overflows(row) == row.mat.x0 + ToUint32(row.extents.x_advance) > ClipEdge

\* The row was composited: the canvas gained one paint of a group that holds
\* the row's drawing and nothing else.
Composited(row) ==
    /\ Len(row.after) = Len(row.before) + 1
    /\ SubSeq(row.after, 1, Len(row.before)) = row.before
    /\ LET item == row.after[Len(row.after)]
       IN /\ item.op = "paint"
          /\ item.content # <<>>
          /\ \A j \in DOMAIN item.content :
                /\ item.content[j].op # "paint"
                /\ item.content[j].row = row.index

=============================================================================
